---- MODULE Spec2Model ----
(***************************************************************************)
(* Context enrichment of notebooks/7-ExpandedContent-Week3.ipynb:          *)
(* groupby_episode, create_expanded_content and join_expanded_content.     *)
(* Python lists are sequences (1-based here, 0-based in the source), dicts *)
(* are records, str values are strings.  An optional argument is a record  *)
(* [present, items]: present = FALSE is Python's None.                     *)
(***************************************************************************)
EXTENDS Integers, Sequences, FiniteSets, TLC

VARIABLES pc, data, chunk_list, window_size, num_episodes,
          episodes, expanded_contents, error, join_in, joined

vars == <<pc, data, chunk_list, window_size, num_episodes,
          episodes, expanded_contents, error, join_in, joined>>

\* ---------------------------------------------------------------- bounds

\* Longest list of records passed as data, and most chunks in a chunk_list.
MaxLen == 4
\* Most episodes in a chunk_list passed by the caller.
MaxGroups == 2
\* Largest window_size passed.
MaxWindow == 2
\* Most negative window_size passed is -NegWindow.
NegWindow == 1
\* Largest num_episodes passed besides the default.
MaxNumEpisodes == 2

\* ------------------------------------------------------------- constants

\* num_episodes: int=193
DefaultNumEpisodes == 193
\* window_size: int=1
DefaultWindowSize == 1
\* key_field: str='video_id'
key_field == "video_id"

VideoIds == {"v1", "v2"}
Contents == {"A", "B", "C"}

\* ------------------------------------------------------------ Python values

Max(a, b) == IF a >= b THEN a ELSE b
Min(a, b) == IF a <= b THEN a ELSE b

\* None, and a list that was passed.
None == [present |-> FALSE, items |-> <<>>]
Some(l) == [present |-> TRUE, items |-> l]

\* Variant: the check written `is None`, so that [] counts as passed.
Truthy_NotNone(x) == x.present

\* Truth value of an optional list: None and [] are falsy.
Truthy(x) == x.present /\ Len(x.items) > 0

\* s[start:end] of a Python list (0-based, end exclusive): a negative index
\* counts from the end, and both are clamped to the list.
PySlice(s, start, end) ==
    LET n  == Len(s)
        lo == IF start < 0 THEN Max(n + start, 0) ELSE Min(start, n)
        hi == IF end < 0 THEN Max(n + end, 0) ELSE Min(end, n)
    IN  SubSeq(s, lo + 1, hi)

\* sep.join(parts)
RECURSIVE Join(_, _)
Join(sep, parts) ==
    IF Len(parts) = 0 THEN ""
    ELSE IF Len(parts) = 1 THEN parts[1]
    ELSE parts[1] \o sep \o Join(sep, Tail(parts))

\* -------------------------------------------------------- groupby_episode

\* Variant: a key change opens an empty group and loses the record.
RECURSIVE GroupRuns_DropOnChange(_, _, _)
GroupRuns_DropOnChange(records, field, acc) ==
    IF Len(records) = 0 THEN acc
    ELSE LET r == Head(records)
             n == Len(acc)
         IN  IF n > 0 /\ Len(acc[n]) > 0 /\ acc[n][Len(acc[n])][field] = r[field]
             THEN GroupRuns_DropOnChange(Tail(records), field,
                                         [acc EXCEPT ![n] = Append(@, r)])
             ELSE GroupRuns_DropOnChange(Tail(records), field,
                                         Append(acc, <<>>))

\* itertools.groupby: a new group starts whenever the key differs from the
\* key of the record before it.
RECURSIVE GroupRuns(_, _, _)
GroupRuns(records, field, acc) ==
    IF Len(records) = 0 THEN acc
    ELSE LET r == Head(records)
             n == Len(acc)
         IN  IF n > 0 /\ acc[n][Len(acc[n])][field] = r[field]
             THEN GroupRuns(Tail(records), field,
                            [acc EXCEPT ![n] = Append(@, r)])
             ELSE GroupRuns(Tail(records), field, Append(acc, <<r>>))

\* Variant: a full group-by, one group per key in first-occurrence order.
RECURSIVE GroupByKey(_, _, _)
GroupByKey(records, field, acc) ==
    IF Len(records) = 0 THEN acc
    ELSE LET r    == Head(records)
             same == {g \in 1..Len(acc) : acc[g][1][field] = r[field]}
         IN  IF same # {}
             THEN GroupByKey(Tail(records), field,
                             [acc EXCEPT ![CHOOSE g \in same : TRUE] = Append(@, r)])
             ELSE GroupByKey(Tail(records), field, Append(acc, <<r>>))
groupby_full(records, field) == GroupByKey(records, field, <<>>)

\* Variant: no grouping, the whole corpus is one episode.
groupby_all(records, field) ==
    IF Len(records) = 0 THEN <<>> ELSE <<records>>

groupby_episode(records, field) == GroupRuns(records, field, <<>>)

\* ------------------------------------------------ create_expanded_content

\* [[d['content'] for d in alist] for alist in episodes]
ExtractContent(eps) ==
    [g \in 1..Len(eps) |-> [i \in 1..Len(eps[g]) |-> eps[g][i].content]]

\* Variant: start = i-window_size, without max(0, ...).
WindowStart_Unclamped(i, w) == i - w
\* Variant: end = i+window_size, the chunk after the last one left out.
WindowEnd_Exclusive(i, w) == i + w

\* Variant: only the chunks with a full window on both sides are expanded.
ExpandEpisode_FullWindowsOnly(episode, w) ==
    LET full == Max(0, Len(episode) - 2 * w)
    IN  [p \in 1..full |-> Join(" ", SubSeq(episode, p, p + 2 * w))]

\* start and end of the window of the chunk at 0-based position i.
WindowStart(i, w) == Max(0, i - w)
WindowEnd(i, w) == i + w + 1

\* The inner loop: one joined string per chunk of the episode.
ExpandEpisode(episode, w) ==
    [p \in 1..Len(episode) |->
        Join(" ", PySlice(episode, WindowStart(p - 1, w), WindowEnd(p - 1, w)))]

\* The outer loop: one container per episode.
ExpandAll(chunks, w) ==
    [g \in 1..Len(chunks) |-> ExpandEpisode(chunks[g], w)]

\* ------------------------------------------------- join_expanded_content

\* The body of join_expanded_content is a docstring and `return data`.
join_expanded_content(records, flattened_content) == records

\* One list of strings out of the list of episode containers.
RECURSIVE Flatten(_)
Flatten(nested) ==
    IF Len(nested) = 0 THEN <<>> ELSE Head(nested) \o Flatten(Tail(nested))

\* ------------------------------------------------------------------ inputs

SeqsUpTo(S, n) == UNION {[1..k -> S] : k \in 0..n}

Records == [video_id : VideoIds, content : Contents]
DataLists == SeqsUpTo(Records, MaxLen)

\* Lists of at most g episodes holding at most total chunks together.
RECURSIVE ChunkListsOf(_, _)
ChunkListsOf(g, total) ==
    IF g = 0 THEN {<<>>}
    ELSE {<<>>} \cup
         UNION {{<<e>> \o rest : rest \in ChunkListsOf(g - 1, total - Len(e))} :
                e \in SeqsUpTo(Contents, total)}
ChunkLists == ChunkListsOf(MaxGroups, MaxLen)

WindowSizes == (0 - NegWindow)..MaxWindow
NumEpisodesArgs == (1..MaxNumEpisodes) \cup {DefaultNumEpisodes}

\* The chunk_list arguments passed together with a data argument.
SideChunkLists == {None, Some(<<<<"B">>>>)}
\* The data arguments passed together with a chunk_list argument.
SideData == {None, Some(<<>>)}

\* ----------------------------------------------------------------- actions

Init ==
    /\ pc = "idle"
    /\ data = None
    /\ chunk_list = None
    /\ window_size = DefaultWindowSize
    /\ num_episodes = DefaultNumEpisodes
    /\ episodes = <<>>
    /\ expanded_contents = None
    /\ error = "none"
    /\ join_in = None
    /\ joined = None

\* A call of create_expanded_content: the arguments are bound.
Bind(d, c, w, n) ==
    /\ data' = d
    /\ chunk_list' = c
    /\ window_size' = w
    /\ num_episodes' = n
    /\ pc' = "validate"
    /\ UNCHANGED <<episodes, expanded_contents, error, join_in, joined>>

\* create_expanded_content(data, ...), with or without a chunk_list.
CallWithData ==
    /\ pc = "idle"
    /\ \E l \in DataLists, c \in SideChunkLists,
          w \in WindowSizes, n \in NumEpisodesArgs : Bind(Some(l), c, w, n)

\* create_expanded_content(chunk_list=...), data absent or empty.
CallWithChunkList ==
    /\ pc = "idle"
    /\ \E d \in SideData, l \in ChunkLists,
          w \in WindowSizes, n \in NumEpisodesArgs : Bind(d, Some(l), w, n)

\* create_expanded_content() with nothing passed.
CallWithNothing ==
    /\ pc = "idle"
    /\ \E w \in WindowSizes, n \in NumEpisodesArgs : Bind(None, None, w, n)

\* groupby_episode(data) called on its own, on any list of records.
CallGroupby ==
    /\ pc = "idle"
    /\ \E l \in DataLists :
          /\ data' = Some(l)
          /\ episodes' = groupby_episode(l, key_field)
    /\ pc' = "grouped"
    /\ UNCHANGED <<chunk_list, window_size, num_episodes, expanded_contents,
                   error, join_in, joined>>

\* Variant: the argument check left out.
Validate_NoRaise ==
    /\ pc = "validate"
    /\ pc' = IF Truthy(data) THEN "group" ELSE "expand"
    /\ UNCHANGED <<data, chunk_list, window_size, num_episodes, episodes,
                   expanded_contents, error, join_in, joined>>

\* if not data and not chunk_list: raise ValueError(...)
Validate ==
    /\ pc = "validate"
    /\ IF ~Truthy(data) /\ ~Truthy(chunk_list)
       THEN pc' = "raised" /\ error' = "ValueError"
       ELSE /\ pc' = IF Truthy(data) THEN "group" ELSE "expand"
            /\ error' = error
    /\ UNCHANGED <<data, chunk_list, window_size, num_episodes, episodes,
                   expanded_contents, join_in, joined>>

\* Variant: the assert left out.
Group_NoAssert ==
    /\ pc = "group"
    /\ episodes' = groupby_episode(data.items, key_field)
    /\ chunk_list' = Some(ExtractContent(episodes'))
    /\ pc' = "expand"
    /\ UNCHANGED <<data, window_size, num_episodes, expanded_contents,
                   error, join_in, joined>>

\* if data: episodes = groupby_episode(...); assert ...; chunk_list = [...]
Group ==
    /\ pc = "group"
    /\ LET eps == groupby_episode(data.items, key_field)
       IN  /\ episodes' = eps
           /\ IF Len(eps) = num_episodes
              THEN /\ chunk_list' = Some(ExtractContent(eps))
                   /\ pc' = "expand"
                   /\ error' = error
              ELSE /\ chunk_list' = chunk_list
                   /\ pc' = "raised"
                   /\ error' = "AssertionError"
    /\ UNCHANGED <<data, window_size, num_episodes, expanded_contents,
                   join_in, joined>>

\* The loops over chunk_list, and return expanded_contents.
Expand ==
    /\ pc = "expand"
    /\ expanded_contents' = Some(ExpandAll(chunk_list.items, window_size))
    /\ pc' = "returned"
    /\ UNCHANGED <<data, chunk_list, window_size, num_episodes, episodes,
                   error, join_in, joined>>

\* data = join_expanded_content(data, flattened_content), on records that
\* may or may not hold an expanded_content key already.
JoinExpandedContent ==
    /\ pc = "returned"
    /\ Truthy(data)
    /\ \E stale \in BOOLEAN :
          LET recs == IF stale
                      THEN [i \in 1..Len(data.items) |->
                              [video_id |-> data.items[i].video_id,
                               content |-> data.items[i].content,
                               expanded_content |-> "old"]]
                      ELSE data.items
          IN  /\ join_in' = Some(recs)
              /\ joined' = Some(join_expanded_content(
                                    recs, Flatten(expanded_contents.items)))
    /\ pc' = "joined"
    /\ UNCHANGED <<data, chunk_list, window_size, num_episodes, episodes,
                   expanded_contents, error>>

Next == CallGroupby \/ CallWithData \/ CallWithChunkList \/ CallWithNothing \/ Validate \/ Group \/ Expand \/ JoinExpandedContent

Spec == Init /\ [][Next]_vars

\* ------------------------------------------------------- reading a state

\* create_expanded_content has returned its list of episode containers.
Returned == pc \in {"returned", "joined"}
\* groupby_episode has run on data and episodes holds what it returned.
Grouped ==
    \/ pc = "grouped"
    \/ data.present /\ Len(data.items) > 0
         /\ (pc \in {"expand", "returned", "joined"} \/ error = "AssertionError")
\* The argument check of create_expanded_content is behind.
Validated == pc \in {"group", "expand", "returned", "joined", "raised"}

\* The text of positions lo..hi of an episode, ascending, single-spaced.
RECURSIVE WindowText(_, _, _)
WindowText(ep, lo, hi) ==
    IF lo > hi THEN ""
    ELSE IF lo = hi THEN ep[lo]
    ELSE ep[lo] \o " " \o WindowText(ep, lo + 1, hi)

\* First and last position of the maximal run of equal video_id around k.
RunStart(items, k) ==
    CHOOSE j \in 1..k :
        /\ \A m \in j..k : items[m].video_id = items[k].video_id
        /\ (j = 1 \/ items[j - 1].video_id # items[k].video_id)
RunEnd(items, k) ==
    CHOOSE j \in k..Len(items) :
        /\ \A m \in k..j : items[m].video_id = items[k].video_id
        /\ (j = Len(items) \/ items[j + 1].video_id # items[k].video_id)
\* Number of maximal runs of equal video_id.
NumRuns(items) ==
    IF Len(items) = 0 THEN 0
    ELSE 1 + Cardinality({k \in 2..Len(items) :
                             items[k].video_id # items[k - 1].video_id})
ContentsOf(items) == [k \in 1..Len(items) |-> items[k].content]
RECURSIVE SumLen(_)
SumLen(nested) ==
    IF Len(nested) = 0 THEN 0 ELSE Len(Head(nested)) + SumLen(Tail(nested))

\* ------------------------------------------------------------------ claims

\* C1: with window_size w >= 0, the string returned for position i of a
\* group of size n is the single-space join of the chunks at positions
\* max(0, i-w) .. min(n-1, i+w), ascending; a position with w neighbours on
\* both sides joins 2w+1 chunks.
C1_ClampedWindowJoin ==
    (Returned /\ window_size >= 0) =>
        LET groups == chunk_list.items
            out    == expanded_contents.items
        IN  /\ Len(out) = Len(groups)
            /\ \A g \in 1..Len(groups) :
                  /\ Len(out[g]) = Len(groups[g])
                  /\ \A i \in 1..Len(groups[g]) :
                        LET n  == Len(groups[g])
                            lo == Max(1, i - window_size)
                            hi == Min(n, i + window_size)
                        IN  /\ out[g][i] = WindowText(groups[g], lo, hi)
                            /\ (i - window_size >= 1 /\ i + window_size <= n)
                                  => hi - lo + 1 = 2 * window_size + 1

\* The example of the specification's shape: a group of four chunks and
\* window_size 1 give "c1 c2", "c1 c2 c3", "c2 c3 c4", "c3 c4".
C1_Witness ==
    /\ pc = "returned"
    /\ window_size = 1
    /\ chunk_list.items = <<<<"A", "B", "C", "A">>>>
    /\ expanded_contents.items = <<<<"A B", "A B C", "B C A", "C A">>>>

\* C2: the groups groupby_episode returns, concatenated in order, are the
\* input list; every group is non-empty and the sizes add up to its length.
C2_GroupsPartitionInput ==
    Grouped =>
        /\ Flatten(episodes) = data.items
        /\ \A g \in 1..Len(episodes) : Len(episodes[g]) >= 1
        /\ SumLen(episodes) = Len(data.items)

\* A list whose keys are not contiguous was grouped.
C2_Witness ==
    /\ pc = "grouped"
    /\ Len(data.items) = 4
    /\ data.items[1].video_id = "v1"
    /\ data.items[2].video_id = "v2"
    /\ data.items[3].video_id = "v2"
    /\ data.items[4].video_id = "v1"
    /\ Len(episodes) = 3

\* C3: given raw records, the string returned for a record joins chunks of
\* records of its own run of equal video_id only: the window is cut at the
\* first and last record of the episode, with nothing put in its place.
C3_NoCrossEpisodeBleed ==
    (Returned /\ data.present /\ Len(data.items) > 0) =>
        LET items == data.items
            flat  == Flatten(expanded_contents.items)
        IN  /\ Len(flat) = Len(items)
            /\ \A k \in 1..Len(items) :
                  LET first == RunStart(items, k)
                      last  == RunEnd(items, k)
                  IN  /\ \E lo \in first..(last + 1), hi \in (first - 1)..last :
                            flat[k] = WindowText(ContentsOf(items), lo, hi)
                      /\ window_size >= 0 =>
                            flat[k] = WindowText(ContentsOf(items),
                                                 Max(first, k - window_size),
                                                 Min(last, k + window_size))

\* The window of the last record of one episode and of the first record of
\* the next were both cut at the boundary between them.
C3_Witness ==
    /\ pc = "returned"
    /\ window_size = 1
    /\ data.present
    /\ Len(data.items) = 4
    /\ data.items[2].video_id = "v1"
    /\ data.items[3].video_id = "v2"
    /\ data.items[2].content = "B"
    /\ data.items[3].content = "C"
    /\ expanded_contents.items = <<<<"A B", "A B">>, <<"C A", "C A">>>>

\* C4: with window_size 0 the expanded content of every position is the
\* chunk at that position.
C4_ZeroWindowIsIdentity ==
    (Returned /\ window_size = 0) =>
        /\ expanded_contents.items = chunk_list.items
        /\ (data.present /\ Len(data.items) > 0) =>
              Flatten(expanded_contents.items) = ContentsOf(data.items)

C4_Witness ==
    /\ pc = "returned"
    /\ window_size = 0
    /\ data.present
    /\ Len(data.items) = 3
    /\ expanded_contents.items = <<<<"A", "B">>, <<"C">>>>

\* C5: with neither data nor chunk_list passed, the call raises ValueError;
\* nothing was grouped and nothing is returned.
C5_NoInputRaisesValueError ==
    (Validated /\ ~data.present /\ ~chunk_list.present) =>
        /\ pc = "raised"
        /\ error = "ValueError"
        /\ episodes = <<>>
        /\ expanded_contents = None

C5_Witness ==
    /\ pc = "raised"
    /\ error = "ValueError"
    /\ ~data.present
    /\ ~chunk_list.present

\* C6: for window_size >= 0 the result has one container per group, each as
\* long as its group; flattened, it has one string per input record.
C6_ShapePreserved ==
    (Returned /\ window_size >= 0) =>
        LET out == expanded_contents.items
        IN  /\ Len(out) = Len(chunk_list.items)
            /\ \A g \in 1..Len(out) : Len(out[g]) = Len(chunk_list.items[g])
            /\ (data.present /\ Len(data.items) > 0) =>
                  /\ Len(out) = Len(episodes)
                  /\ \A g \in 1..Len(out) : Len(out[g]) = Len(episodes[g])
                  /\ Len(Flatten(out)) = Len(data.items)

\* Two episodes of two records each were expanded with a window wider than
\* either episode.
C6_Witness ==
    /\ pc = "returned"
    /\ window_size = 2
    /\ data.present
    /\ Len(data.items) = 4
    /\ Len(expanded_contents.items) = 2
    /\ Len(expanded_contents.items[1]) = 2
    /\ Len(expanded_contents.items[2]) = 2

\* C7: join_expanded_content returns the records in the same number and
\* order, each with expanded_content set to the flattened string at its
\* position and every other field as it was.
C7_JoinSetsExpandedContent ==
    pc = "joined" =>
        LET before == join_in.items
            after  == joined.items
            flat   == Flatten(expanded_contents.items)
        IN  /\ Len(after) = Len(before)
            /\ \A i \in 1..Len(after) :
                  /\ "expanded_content" \in DOMAIN after[i]
                  /\ after[i].expanded_content = flat[i]
                  /\ after[i].video_id = before[i].video_id
                  /\ after[i].content = before[i].content

\* C8: every group is a maximal run of consecutive records of equal key:
\* one key inside a group, different keys in adjacent groups, as many
\* groups as runs, also when a key comes back after another one.
C8_RunLengthGrouping ==
    Grouped =>
        /\ Len(episodes) = NumRuns(data.items)
        /\ \A g \in 1..Len(episodes) :
              /\ Len(episodes[g]) >= 1
              /\ \A i \in 1..Len(episodes[g]) :
                    episodes[g][i].video_id = episodes[g][1].video_id
        /\ \A g \in 1..(Len(episodes) - 1) :
              episodes[g][1].video_id # episodes[g + 1][1].video_id
        /\ Flatten(episodes) = data.items

\* A key that occurs in two runs that are not adjacent gave two groups.
C8_Witness ==
    /\ pc = "grouped"
    /\ Len(episodes) = 3
    /\ episodes[1][1].video_id = "v1"
    /\ episodes[2][1].video_id = "v2"
    /\ episodes[3][1].video_id = "v1"

\* C9: given raw records, a number of runs other than num_episodes stops
\* the call with an assertion failure and nothing returned, and an equal
\* number lets it go on; given a chunk_list alone, no number of groups stops
\* the call.
C9_EpisodeCountCheck ==
    /\ (data.present /\ Len(data.items) > 0
            /\ pc \in {"expand", "returned", "joined", "raised"}) =>
          IF NumRuns(data.items) = num_episodes
          THEN pc # "raised" /\ error = "none"
          ELSE /\ pc = "raised"
               /\ error = "AssertionError"
               /\ expanded_contents = None
    /\ (~(data.present /\ Len(data.items) > 0)
            /\ chunk_list.present /\ Len(chunk_list.items) > 0
            /\ Validated) =>
          /\ pc \in {"expand", "returned"}
          /\ error = "none"

\* One run was found where two were expected.
C9_Witness ==
    /\ pc = "raised"
    /\ error = "AssertionError"
    /\ num_episodes = 2
    /\ Len(episodes) = 1
    /\ expanded_contents = None

\* C10: an empty list counts as nothing passed: with data None or [] and
\* chunk_list None or [] the call raises ValueError, so a call that returns
\* returns at least one episode container.
C10_EmptyInputIsNoInput ==
    /\ (Validated /\ (~data.present \/ data.items = <<>>)
                  /\ (~chunk_list.present \/ chunk_list.items = <<>>)) =>
          /\ pc = "raised"
          /\ error = "ValueError"
          /\ expanded_contents = None
    /\ Returned => Len(expanded_contents.items) > 0

\* Both arguments were passed, and both were empty lists.
C10_Witness ==
    /\ pc = "raised"
    /\ error = "ValueError"
    /\ data = Some(<<>>)
    /\ chunk_list = Some(<<>>)

====
